---- MODULE Spec2Model ----
(***************************************************************************)
(* HID over I2C ACPI subclass (drivers/hid/i2c-hid/i2c-hid-acpi.c).        *)
(*                                                                         *)
(* One i2c client device and the adapter callbacks the driver framework    *)
(* and the shared HID-over-I2C core invoke on it: probe, the power-up      *)
(* callback (at probe and at resume), remove and shutdown.  Every action   *)
(* is one whole callback; the external calls a callback makes are kept,    *)
(* in program order, in the variable calls.                                *)
(***************************************************************************)
EXTENDS Integers, Sequences, FiniteSets

\* ---------------------------------------------------------------- bounds
MaxAttempts == 3        \* probe attempts explored for the device
MaxPowerUps == 3        \* power-up callbacks explored for one record

\* ------------------------------------------------------ program constants
ENOMEM == 12
ENODEV == 19
ACPI_STATE_D3_COLD == 4
U16_MOD == 65536

\* The _DSM evaluation returned no object (obj == NULL).
NoObj == -1

\* Integer values the _DSM may return (an ACPI integer; the values above
\* 65535 are the ones a u16 cannot hold).
DsmValues == {0, 1, 65535, 65536, 2147483647}

\* _HID/_CID strings a device node may carry.
AcpiIds == {"CHPN0001", "PNP0C50"}

\* Bus client handles.
ClientHandles == {1, 2}

\* Status codes the shared core's probe may return.
CoreRets == {0, -ENODEV}

VARIABLES
    client,       \* the struct i2c_client the framework passes to the callbacks
    devids,       \* _HID and _CIDs of the device's ACPI node
    fadt_low_power_s0, \* acpi_gbl_FADT.flags & ACPI_FADT_LOW_POWER_S0
    wakeup,       \* dev->power: [capable, enabled]
    bound,        \* the driver is bound to the device (probe returned >= 0)
    suspended,    \* the core's suspend ran and resume has not yet
    shut,         \* the shutdown callback has run
    devres,       \* device-managed struct i2c_hid_acpi records of the device
    attempts,     \* probe attempts so far
    powerups,     \* power-up callbacks run on the current record
    fixups,       \* acpi_device_fix_up_power calls made for the current record
    last,         \* the callback that ran last
    calls,        \* the calls that callback made, in order
    ret           \* its return value

vars == <<client, devids, fadt_low_power_s0, wakeup, bound, suspended, shut,
          devres, attempts, powerups, fixups, last, calls, ret>>

\* ---------------------------------------------------------------- helpers
Call(f, a, r) == [fn |-> f, args |-> a, res |-> r]

B2I(b) == IF b THEN 1 ELSE 0

RECURSIVE CountFn(_, _)
CountFn(s, f) ==
    IF s = <<>> THEN 0
    ELSE B2I(Head(s).fn = f) + CountFn(Tail(s), f)

\* Position of the first call of f in s, 0 when there is none.
RECURSIVE FirstAt(_, _, _)
FirstAt(s, f, i) ==
    IF i > Len(s) THEN 0
    ELSE IF s[i].fn = f THEN i
    ELSE FirstAt(s, f, i + 1)

Pos(f) == FirstAt(calls, f, 1)
Called(f) == Pos(f) > 0
TheCall(f) == calls[Pos(f)]

\* ------------------------------------------------------------ the adapter

\* static const struct acpi_device_id i2c_hid_acpi_blacklist[]
i2c_hid_acpi_blacklist == {"CHPN0001"}

\* acpi_match_device_ids(adev, ids): 0 when the _HID or a _CID is listed.
acpi_match_device_ids(ids, table) ==
    IF ids \cap table # {} THEN 0 ELSE -ENODEV

\* Variant: the descriptor address kept in a variable as wide as the ACPI
\* integer instead of a u16.
ToU16_wide(v) == v

\* The assignment of an ACPI integer to a u16.
ToU16(v) == v % U16_MOD

\* Variant: the result of the _DSM evaluation is used without the !obj test.
i2c_hid_acpi_get_descriptor_unchecked(c, adev, getdev_ok, ids, dsm) ==
    LET handle == Call("ACPI_HANDLE", <<c>>, B2I(adev))
        getdev == Call("acpi_bus_get_device", <<c>>, IF getdev_ok THEN 0 ELSE -ENODEV)
        match  == Call("acpi_match_device_ids", <<c>>,
                       acpi_match_device_ids(ids, i2c_hid_acpi_blacklist))
        eval   == Call("acpi_evaluate_dsm_typed", <<c>>, dsm)
    IN  IF handle.res = 0 THEN
            [ret |-> -ENODEV, calls |-> <<handle>>]
        ELSE IF getdev.res # 0 THEN
            [ret |-> -ENODEV, calls |-> <<handle, getdev>>]
        ELSE IF match.res = 0 THEN
            [ret |-> -ENODEV, calls |-> <<handle, getdev, match>>]
        ELSE
            [ret   |-> IF eval.res = NoObj THEN 0 ELSE ToU16(eval.res),
             calls |-> <<handle, getdev, match, eval>>]

\* Variant: the _DSM is evaluated before the blacklist is consulted.
i2c_hid_acpi_get_descriptor_dsm_first(c, adev, getdev_ok, ids, dsm) ==
    LET handle == Call("ACPI_HANDLE", <<c>>, B2I(adev))
        getdev == Call("acpi_bus_get_device", <<c>>, IF getdev_ok THEN 0 ELSE -ENODEV)
        match  == Call("acpi_match_device_ids", <<c>>,
                       acpi_match_device_ids(ids, i2c_hid_acpi_blacklist))
        eval   == Call("acpi_evaluate_dsm_typed", <<c>>, dsm)
    IN  IF handle.res = 0 THEN
            [ret |-> -ENODEV, calls |-> <<handle>>]
        ELSE IF getdev.res # 0 THEN
            [ret |-> -ENODEV, calls |-> <<handle, getdev>>]
        ELSE IF eval.res = NoObj THEN
            [ret |-> -ENODEV, calls |-> <<handle, getdev, eval>>]
        ELSE IF match.res = 0 THEN
            [ret |-> -ENODEV, calls |-> <<handle, getdev, eval, match>>]
        ELSE
            [ret |-> ToU16(eval.res), calls |-> <<handle, getdev, eval, match>>]

\* i2c_hid_acpi_get_descriptor(client).  adev: ACPI_HANDLE(&client->dev) is
\* not NULL; getdev_ok: acpi_bus_get_device succeeds; dsm: what the _DSM
\* evaluation yields.
i2c_hid_acpi_get_descriptor(c, adev, getdev_ok, ids, dsm) ==
    LET handle == Call("ACPI_HANDLE", <<c>>, B2I(adev))
        getdev == Call("acpi_bus_get_device", <<c>>, IF getdev_ok THEN 0 ELSE -ENODEV)
        match  == Call("acpi_match_device_ids", <<c>>,
                       acpi_match_device_ids(ids, i2c_hid_acpi_blacklist))
        eval   == Call("acpi_evaluate_dsm_typed", <<c>>, dsm)
    IN  IF handle.res = 0 THEN
            [ret |-> -ENODEV, calls |-> <<handle>>]
        ELSE IF getdev.res # 0 THEN
            [ret |-> -ENODEV, calls |-> <<handle, getdev>>]
        ELSE IF match.res = 0 THEN
            [ret |-> -ENODEV, calls |-> <<handle, getdev, match>>]
        ELSE IF eval.res = NoObj THEN
            [ret |-> -ENODEV, calls |-> <<handle, getdev, match, eval>>]
        ELSE
            [ret |-> ToU16(eval.res), calls |-> <<handle, getdev, match, eval>>]

\* Variant: power_fixed is never set.
i2c_hid_acpi_power_up_device_unflagged(rec, adev) ==
    LET companion == Call("ACPI_COMPANION", <<rec.client>>, B2I(adev))
    IN  IF rec.power_fixed THEN
            [rec |-> rec, ret |-> 0, calls |-> <<>>]
        ELSE
            [rec   |-> rec,
             ret   |-> 0,
             calls |-> IF companion.res # 0
                       THEN <<companion,
                              Call("acpi_device_fix_up_power", <<rec.client>>, 0)>>
                       ELSE <<companion>>]

\* Variant: power_fixed is set only when the fix-up is performed.
i2c_hid_acpi_power_up_device_if_adev(rec, adev) ==
    LET companion == Call("ACPI_COMPANION", <<rec.client>>, B2I(adev))
    IN  IF rec.power_fixed THEN
            [rec |-> rec, ret |-> 0, calls |-> <<>>]
        ELSE IF companion.res # 0 THEN
            [rec   |-> [rec EXCEPT !.power_fixed = TRUE],
             ret   |-> 0,
             calls |-> <<companion,
                         Call("acpi_device_fix_up_power", <<rec.client>>, 0)>>]
        ELSE
            [rec |-> rec, ret |-> 0, calls |-> <<companion>>]

\* i2c_hid_acpi_power_up_device(subclass) on the record rec; adev:
\* ACPI_COMPANION(dev) is not NULL.
i2c_hid_acpi_power_up_device(rec, adev) ==
    LET companion == Call("ACPI_COMPANION", <<rec.client>>, B2I(adev))
    IN  IF rec.power_fixed THEN
            [rec |-> rec, ret |-> 0, calls |-> <<>>]
        ELSE
            [rec   |-> [rec EXCEPT !.power_fixed = TRUE],
             ret   |-> 0,
             calls |-> IF companion.res # 0
                       THEN <<companion,
                              Call("acpi_device_fix_up_power", <<rec.client>>, 0)>>
                       ELSE <<companion>>]

\* Variant: the record is not zeroed (devm_kmalloc) and power_fixed reads as set.
devm_kmalloc_dirty(id) ==
    [id |-> id, client |-> 0, power_up_device |-> "NULL", power_fixed |-> TRUE]

\* devm_kzalloc(&client->dev, sizeof(*ihid_acpi), GFP_KERNEL): a zeroed record.
devm_kzalloc(id) ==
    [id |-> id, client |-> 0, power_up_device |-> "NULL", power_fixed |-> FALSE]

\* device_set_wakeup_capable(dev, capable)
device_set_wakeup_capable(w, capable) == [w EXCEPT !.capable = capable]

\* device_set_wakeup_enable(dev, enable)
device_set_wakeup_enable(w, enable) ==
    IF enable
    THEN (IF w.capable THEN [w EXCEPT !.enabled = TRUE] ELSE w)
    ELSE [w EXCEPT !.enabled = FALSE]

\* i2c_hid_core_probe(client, subclass, hid_descriptor_address) of the shared
\* core: it may call subclass->power_up_device (n_pu times) and returns a
\* status of its own.
RECURSIVE CorePowerUps(_, _, _)
CorePowerUps(rec, adev, n) ==
    IF n = 0 THEN [rec |-> rec, calls |-> <<>>]
    ELSE LET pu   == i2c_hid_acpi_power_up_device(rec, adev)
             rest == CorePowerUps(pu.rec, adev, n - 1)
         IN  [rec   |-> rest.rec,
              calls |-> <<Call("i2c_hid_acpi_power_up_device", <<rec.id>>, pu.ret)>>
                        \o pu.calls \o rest.calls]

i2c_hid_core_probe(c, rec, addr, w, adev, n_pu, core_ret) ==
    LET pu == IF rec.power_up_device = "i2c_hid_acpi_power_up_device"
              THEN CorePowerUps(rec, adev, n_pu)
              ELSE [rec |-> rec, calls |-> <<>>]
    IN  [rec   |-> pu.rec,
         ret   |-> core_ret,
         calls |-> <<Call("i2c_hid_core_probe",
                          <<c, rec.id, addr, B2I(w.capable), B2I(w.enabled),
                            B2I(rec.power_up_device = "i2c_hid_acpi_power_up_device"),
                            B2I(rec.power_fixed)>>,
                          core_ret)>> \o pu.calls]

\* Variant: the result of the discovery is not tested before the hand-off.
i2c_hid_acpi_probe_unchecked(c, id, alloc_ok, adev, getdev_ok, ids, dsm, fadt, w, n_pu, core_ret) ==
    LET kz == Call("devm_kzalloc", <<c>>, IF alloc_ok THEN id ELSE 0)
    IN  IF ~alloc_ok THEN
            [ret |-> -ENOMEM, calls |-> <<kz>>, recs |-> <<>>, wakeup |-> w]
        ELSE
        LET rec == [devm_kzalloc(id) EXCEPT
                        !.client = c,
                        !.power_up_device = "i2c_hid_acpi_power_up_device"]
            gd  == i2c_hid_acpi_get_descriptor(c, adev, getdev_ok, ids, dsm)
            gdc == <<kz>> \o gd.calls
                   \o <<Call("i2c_hid_acpi_get_descriptor", <<c>>, gd.ret)>>
            addr == ToU16(gd.ret)
            w1   == device_set_wakeup_capable(w, TRUE)
            w2   == device_set_wakeup_enable(w1, FALSE)
            wk   == IF fadt THEN w2 ELSE w
            wkc  == IF fadt
                    THEN <<Call("device_set_wakeup_capable", <<c, 1>>, 0),
                           Call("device_set_wakeup_enable", <<c, 0>>, 0)>>
                    ELSE <<>>
            core == i2c_hid_core_probe(c, rec, addr, wk, adev, n_pu, core_ret)
        IN  [ret    |-> core.ret,
             calls  |-> gdc \o wkc \o core.calls,
             recs   |-> <<core.rec>>,
             wakeup |-> wk]

\* Variant: the wake-up flags are set without testing ACPI_FADT_LOW_POWER_S0.
i2c_hid_acpi_probe_no_fadt_test(c, id, alloc_ok, adev, getdev_ok, ids, dsm, fadt, w, n_pu, core_ret) ==
    LET kz == Call("devm_kzalloc", <<c>>, IF alloc_ok THEN id ELSE 0)
    IN  IF ~alloc_ok THEN
            [ret |-> -ENOMEM, calls |-> <<kz>>, recs |-> <<>>, wakeup |-> w]
        ELSE
        LET rec == [devm_kzalloc(id) EXCEPT
                        !.client = c,
                        !.power_up_device = "i2c_hid_acpi_power_up_device"]
            gd  == i2c_hid_acpi_get_descriptor(c, adev, getdev_ok, ids, dsm)
            gdc == <<kz>> \o gd.calls
                   \o <<Call("i2c_hid_acpi_get_descriptor", <<c>>, gd.ret)>>
        IN  IF gd.ret < 0 THEN
                [ret |-> gd.ret, calls |-> gdc, recs |-> <<rec>>, wakeup |-> w]
            ELSE
            LET addr == ToU16(gd.ret)
                w1   == device_set_wakeup_capable(w, TRUE)
                wk   == device_set_wakeup_enable(w1, FALSE)
                wkc  == <<Call("device_set_wakeup_capable", <<c, 1>>, 0),
                          Call("device_set_wakeup_enable", <<c, 0>>, 0)>>
                core == i2c_hid_core_probe(c, rec, addr, wk, adev, n_pu, core_ret)
            IN  [ret    |-> core.ret,
                 calls  |-> gdc \o wkc \o core.calls,
                 recs   |-> <<core.rec>>,
                 wakeup |-> wk]

\* Variant: the wake-up flags are set before the descriptor discovery.
i2c_hid_acpi_probe_wakeup_first(c, id, alloc_ok, adev, getdev_ok, ids, dsm, fadt, w, n_pu, core_ret) ==
    LET kz == Call("devm_kzalloc", <<c>>, IF alloc_ok THEN id ELSE 0)
    IN  IF ~alloc_ok THEN
            [ret |-> -ENOMEM, calls |-> <<kz>>, recs |-> <<>>, wakeup |-> w]
        ELSE
        LET rec == [devm_kzalloc(id) EXCEPT
                        !.client = c,
                        !.power_up_device = "i2c_hid_acpi_power_up_device"]
            w1   == device_set_wakeup_capable(w, TRUE)
            w2   == device_set_wakeup_enable(w1, FALSE)
            wk   == IF fadt THEN w2 ELSE w
            wkc  == IF fadt
                    THEN <<Call("device_set_wakeup_capable", <<c, 1>>, 0),
                           Call("device_set_wakeup_enable", <<c, 0>>, 0)>>
                    ELSE <<>>
            gd  == i2c_hid_acpi_get_descriptor(c, adev, getdev_ok, ids, dsm)
            gdc == <<kz>> \o wkc \o gd.calls
                   \o <<Call("i2c_hid_acpi_get_descriptor", <<c>>, gd.ret)>>
        IN  IF gd.ret < 0 THEN
                [ret |-> gd.ret, calls |-> gdc, recs |-> <<rec>>, wakeup |-> wk]
            ELSE
            LET addr == ToU16(gd.ret)
                core == i2c_hid_core_probe(c, rec, addr, wk, adev, n_pu, core_ret)
            IN  [ret    |-> core.ret,
                 calls  |-> gdc \o core.calls,
                 recs   |-> <<core.rec>>,
                 wakeup |-> wk]

\* i2c_hid_acpi_probe(client, dev_id)
i2c_hid_acpi_probe(c, id, alloc_ok, adev, getdev_ok, ids, dsm, fadt, w, n_pu, core_ret) ==
    LET kz == Call("devm_kzalloc", <<c>>, IF alloc_ok THEN id ELSE 0)
    IN  IF ~alloc_ok THEN
            [ret |-> -ENOMEM, calls |-> <<kz>>, recs |-> <<>>, wakeup |-> w]
        ELSE
        LET rec == [devm_kzalloc(id) EXCEPT
                        !.client = c,
                        !.power_up_device = "i2c_hid_acpi_power_up_device"]
            gd  == i2c_hid_acpi_get_descriptor(c, adev, getdev_ok, ids, dsm)
            gdc == <<kz>> \o gd.calls
                   \o <<Call("i2c_hid_acpi_get_descriptor", <<c>>, gd.ret)>>
        IN  IF gd.ret < 0 THEN
                [ret |-> gd.ret, calls |-> gdc, recs |-> <<rec>>, wakeup |-> w]
            ELSE
            LET addr == ToU16(gd.ret)
                w1   == device_set_wakeup_capable(w, TRUE)
                w2   == device_set_wakeup_enable(w1, FALSE)
                wk   == IF fadt THEN w2 ELSE w
                wkc  == IF fadt
                        THEN <<Call("device_set_wakeup_capable", <<c, 1>>, 0),
                               Call("device_set_wakeup_enable", <<c, 0>>, 0)>>
                        ELSE <<>>
                core == i2c_hid_core_probe(c, rec, addr, wk, adev, n_pu, core_ret)
            IN  [ret    |-> core.ret,
                 calls  |-> gdc \o wkc \o core.calls,
                 recs   |-> <<core.rec>>,
                 wakeup |-> wk]

\* Variant: the D3cold request is issued before the core's shutdown.
i2c_hid_acpi_shutdown_power_first(c, adev) ==
    <<Call("ACPI_COMPANION", <<c>>, B2I(adev)),
      Call("acpi_device_set_power", <<B2I(adev), ACPI_STATE_D3_COLD>>, 0),
      Call("i2c_hid_core_shutdown", <<c>>, 0)>>

\* i2c_hid_acpi_shutdown(client); adev: ACPI_COMPANION(&client->dev) is not NULL.
i2c_hid_acpi_shutdown(c, adev) ==
    <<Call("i2c_hid_core_shutdown", <<c>>, 0),
      Call("ACPI_COMPANION", <<c>>, B2I(adev)),
      Call("acpi_device_set_power", <<B2I(adev), ACPI_STATE_D3_COLD>>, 0)>>

\* ---------------------------------------------------------- the framework

\* The driver core releases the device's managed resources when a probe
\* fails and when the driver is detached.
devres_release_all(d) == <<>>

Init ==
    /\ client \in ClientHandles
    /\ devids \in SUBSET AcpiIds
    /\ fadt_low_power_s0 \in BOOLEAN
    /\ wakeup \in {[capable |-> FALSE, enabled |-> FALSE],
                   [capable |-> TRUE,  enabled |-> FALSE],
                   [capable |-> TRUE,  enabled |-> TRUE]}
    /\ bound = FALSE
    /\ suspended = FALSE
    /\ shut = FALSE
    /\ devres = <<>>
    /\ attempts = 0
    /\ powerups = 0
    /\ fixups = 0
    /\ last = "none"
    /\ calls = <<>>
    /\ ret = 0

\* The framework binds the driver: .probe = i2c_hid_acpi_probe.
Probe ==
    /\ ~bound /\ ~shut
    /\ attempts < MaxAttempts
    /\ \E alloc_ok \in BOOLEAN, adev \in BOOLEAN, getdev_ok \in BOOLEAN,
          dsm \in DsmValues \cup {NoObj}, n_pu \in 0..2, core_ret \in CoreRets :
         LET r == i2c_hid_acpi_probe(client, attempts + 1, alloc_ok, adev,
                                     getdev_ok, devids, dsm, fadt_low_power_s0,
                                     wakeup, n_pu, core_ret)
             d == devres \o r.recs
         IN  /\ attempts' = attempts + 1
             /\ last' = "probe"
             /\ calls' = r.calls
             /\ ret' = r.ret
             /\ wakeup' = r.wakeup
             /\ powerups' = CountFn(r.calls, "i2c_hid_acpi_power_up_device")
             /\ fixups' = CountFn(r.calls, "acpi_device_fix_up_power")
             /\ bound' = (r.ret >= 0)
             /\ devres' = IF r.ret < 0 THEN devres_release_all(d) ELSE d
    /\ UNCHANGED <<client, devids, fadt_low_power_s0, suspended, shut>>

\* .pm suspend = i2c_hid_core_suspend: nothing of the adapter runs.
Suspend ==
    /\ bound /\ ~shut /\ ~suspended
    /\ suspended' = TRUE
    /\ last' = "suspend"
    /\ calls' = <<Call("i2c_hid_core_suspend", <<client>>, 0)>>
    /\ ret' = 0
    /\ UNCHANGED <<client, devids, fadt_low_power_s0, wakeup, bound, shut,
                   devres, attempts, powerups, fixups>>

\* .pm resume = i2c_hid_core_resume, which calls subclass->power_up_device.
Resume ==
    /\ bound /\ ~shut /\ suspended
    /\ powerups < MaxPowerUps
    /\ Len(devres) > 0
    /\ \E adev \in BOOLEAN :
         LET n  == Len(devres)
             pu == i2c_hid_acpi_power_up_device(devres[n], adev)
         IN  /\ devres' = [devres EXCEPT ![n] = pu.rec]
             /\ calls' = <<Call("i2c_hid_core_resume", <<client>>, 0),
                           Call("i2c_hid_acpi_power_up_device", <<devres[n].id>>, pu.ret)>>
                         \o pu.calls
             /\ ret' = pu.ret
             /\ powerups' = powerups + 1
             /\ fixups' = fixups + CountFn(pu.calls, "acpi_device_fix_up_power")
    /\ suspended' = FALSE
    /\ last' = "resume"
    /\ UNCHANGED <<client, devids, fadt_low_power_s0, wakeup, bound, shut, attempts>>

\* .remove = i2c_hid_core_remove, then the driver core detaches the device.
Remove ==
    /\ bound /\ ~shut
    /\ bound' = FALSE
    /\ suspended' = FALSE
    /\ devres' = devres_release_all(devres)
    /\ last' = "remove"
    /\ calls' = <<Call("i2c_hid_core_remove", <<client>>, 0)>>
    /\ ret' = 0
    /\ UNCHANGED <<client, devids, fadt_low_power_s0, wakeup, shut, attempts,
                   powerups, fixups>>

\* .shutdown = i2c_hid_acpi_shutdown
Shutdown ==
    /\ bound /\ ~shut
    /\ \E adev \in BOOLEAN :
         calls' = i2c_hid_acpi_shutdown(client, adev)
    /\ shut' = TRUE
    /\ last' = "shutdown"
    /\ ret' = 0
    /\ UNCHANGED <<client, devids, fadt_low_power_s0, wakeup, bound, suspended,
                   devres, attempts, powerups, fixups>>

Next == Probe \/ Suspend \/ Resume \/ Remove \/ Shutdown

Spec == Init /\ [][Next]_vars

\* ------------------------------------------------------------- properties

CoreProbe == TheCall("i2c_hid_core_probe")
Discovery == TheCall("i2c_hid_acpi_get_descriptor")

AllocFailed ==
    Called("devm_kzalloc") /\ TheCall("devm_kzalloc").res = 0
NoAcpiDevice ==
    \/ Called("ACPI_HANDLE") /\ TheCall("ACPI_HANDLE").res = 0
    \/ Called("acpi_bus_get_device") /\ TheCall("acpi_bus_get_device").res # 0
Blacklisted ==
    Called("acpi_match_device_ids") /\ TheCall("acpi_match_device_ids").res = 0
DsmFailed ==
    Called("acpi_evaluate_dsm_typed") /\ TheCall("acpi_evaluate_dsm_typed").res = NoObj

ProbeSteps ==
    {"devm_kzalloc", "ACPI_HANDLE", "acpi_bus_get_device", "acpi_match_device_ids",
     "acpi_evaluate_dsm_typed", "i2c_hid_acpi_get_descriptor"}

PowerActions ==
    {"device_set_wakeup_capable", "device_set_wakeup_enable",
     "acpi_device_fix_up_power", "acpi_device_set_power"}

\* C1: a probe attempt in which the allocation fails, the client has no ACPI
\* handle/device, the device is blacklisted or the _DSM yields no object
\* returns a negative status (-ENOMEM for the allocation, -ENODEV for the
\* other three), never calls i2c_hid_core_probe, and takes no step twice.
C1_ProbeFailureReported ==
    last = "probe" =>
        /\ AllocFailed => ret = -ENOMEM
        /\ (NoAcpiDevice \/ Blacklisted \/ DsmFailed) => ret = -ENODEV
        /\ (AllocFailed \/ NoAcpiDevice \/ Blacklisted \/ DsmFailed) =>
               /\ ret < 0
               /\ ~Called("i2c_hid_core_probe")
               /\ ~bound
        /\ \A f \in ProbeSteps : CountFn(calls, f) <= 1

C1_Witness ==
    /\ last = "probe" /\ attempts = 2
    /\ DsmFailed /\ ret = -ENODEV
    /\ ~Called("i2c_hid_core_probe")

\* C2: a probe attempt calls i2c_hid_core_probe at most once, only after the
\* attempt's own descriptor discovery returned an address, with the client,
\* the record allocated in the attempt (power_up_device set) and that
\* address; probe then returns what the core returned.
C2_HandOff ==
    last = "probe" =>
        /\ CountFn(calls, "i2c_hid_core_probe") <= 1
        /\ Called("i2c_hid_core_probe") =>
               /\ Called("i2c_hid_acpi_get_descriptor")
               /\ Pos("i2c_hid_acpi_get_descriptor") < Pos("i2c_hid_core_probe")
               /\ Discovery.res >= 0
               /\ Discovery.args[1] = client
               /\ CoreProbe.args[1] = client
               /\ CoreProbe.args[2] = TheCall("devm_kzalloc").res
               /\ CoreProbe.args[2] = attempts
               /\ CoreProbe.args[3] = Discovery.res
               /\ CoreProbe.args[6] = 1
               /\ ret = CoreProbe.res

C2_Witness ==
    /\ last = "probe"
    /\ Called("i2c_hid_core_probe")
    /\ CoreProbe.args[3] = 65535
    /\ ret = -ENODEV

\* C3: over the power-up callbacks run on one record,
\* acpi_device_fix_up_power is called at most once and only in the first of
\* them, every callback returns 0, and power_fixed, once true, stays true
\* as long as the record lives.
C3_FixUpState ==
    /\ fixups <= 1
    /\ Called("acpi_device_fix_up_power") =>
           /\ powerups - CountFn(calls, "i2c_hid_acpi_power_up_device") = 0
           /\ CountFn(SubSeq(calls, 1, Pos("acpi_device_fix_up_power")),
                      "i2c_hid_acpi_power_up_device") = 1
    /\ \A i \in DOMAIN calls :
           calls[i].fn = "i2c_hid_acpi_power_up_device" => calls[i].res = 0

C3_FlagStays ==
    \A i \in DOMAIN devres :
        (/\ devres[i].power_fixed
         /\ i \in DOMAIN devres'
         /\ devres'[i].id = devres[i].id) => devres'[i].power_fixed

C3_FixUpOnce == [] C3_FixUpState /\ [][C3_FlagStays]_vars

C3_Witness ==
    /\ last = "resume"
    /\ powerups >= 3
    /\ fixups = 1
    /\ ~Called("acpi_device_fix_up_power")

\* C4 as stated: power_fixed is true exactly when the fix-up has been
\* applied for the record.
C4_FlagIffFixUpApplied ==
    \A i \in DOMAIN devres : devres[i].power_fixed <=> fixups > 0

\* C4 (amended): power_fixed is true exactly when the power-up callback has
\* run on the record; it is false in a fresh record and true whenever the
\* fix-up has been applied, but it is also true after a power-up that found
\* no ACPI companion and performed no fix-up.
C4_FlagIffPoweredUp ==
    \A i \in DOMAIN devres :
        /\ devres[i].power_fixed <=> powerups > 0
        /\ fixups > 0 => devres[i].power_fixed

C4_Witness ==
    /\ last = "resume"
    /\ Called("ACPI_COMPANION") /\ TheCall("ACPI_COMPANION").res = 0
    /\ Len(devres) = 1 /\ devres[1].power_fixed
    /\ fixups = 0

\* C5: every probe attempt allocates the record once; a failed probe and a
\* detach release it, so the device has at most one live record, none while
\* unbound, the live one is the one of the binding's own attempt, and the
\* core receives it with power_fixed = false.
C5_RecordLifecycle ==
    /\ Len(devres) <= 1
    /\ ~bound => devres = <<>>
    /\ bound => Len(devres) = 1
    /\ last = "probe" =>
           /\ CountFn(calls, "devm_kzalloc") = 1
           /\ bound => devres[1].id = attempts /\ devres[1].client = client
           /\ Called("i2c_hid_core_probe") => CoreProbe.args[7] = 0

C5_Witness ==
    /\ last = "probe" /\ attempts = 3
    /\ bound /\ Len(devres) = 1 /\ devres[1].id = 3
    /\ ~devres[1].power_fixed

\* C6: with the low-power S0 flag set, a probe whose discovery succeeded has
\* made the device wake-up capable and wake-up disabled before the hand-off;
\* with the flag clear, probe changes neither.
C6_WakeupState ==
    last = "probe" =>
        /\ (fadt_low_power_s0 /\ Called("i2c_hid_core_probe")) =>
               /\ Pos("i2c_hid_acpi_get_descriptor") < Pos("device_set_wakeup_capable")
               /\ Pos("device_set_wakeup_capable") < Pos("device_set_wakeup_enable")
               /\ Pos("device_set_wakeup_enable") < Pos("i2c_hid_core_probe")
               /\ TheCall("device_set_wakeup_capable").args = <<client, 1>>
               /\ TheCall("device_set_wakeup_enable").args = <<client, 0>>
               /\ CoreProbe.args[4] = 1 /\ CoreProbe.args[5] = 0
               /\ wakeup = [capable |-> TRUE, enabled |-> FALSE]
        /\ ~fadt_low_power_s0 =>
               /\ ~Called("device_set_wakeup_capable")
               /\ ~Called("device_set_wakeup_enable")

C6_WakeupKept ==
    (attempts' = attempts + 1 /\ ~fadt_low_power_s0) => wakeup' = wakeup

C6_Wakeup == [] C6_WakeupState /\ [][C6_WakeupKept]_vars

C6_Witness ==
    /\ last = "probe" /\ fadt_low_power_s0
    /\ Called("i2c_hid_core_probe")
    /\ Called("device_set_wakeup_enable")
    /\ wakeup = [capable |-> TRUE, enabled |-> FALSE]

\* C7: discovery checks the ACPI handle/device, then the blacklist, then the
\* _DSM: a device carrying CHPN0001 (also with the _CID PNP0C50) gets
\* -ENODEV and its _DSM is never evaluated, and without an ACPI handle
\* neither the blacklist nor the _DSM is consulted.
C7_DiscoveryOrder ==
    (last = "probe" /\ Called("i2c_hid_acpi_get_descriptor")) =>
        /\ "CHPN0001" \in devids =>
               /\ Discovery.res = -ENODEV
               /\ ~Called("acpi_evaluate_dsm_typed")
        /\ TheCall("ACPI_HANDLE").res = 0 =>
               /\ Discovery.res = -ENODEV
               /\ ~Called("acpi_bus_get_device")
               /\ ~Called("acpi_match_device_ids")
               /\ ~Called("acpi_evaluate_dsm_typed")
        /\ Called("acpi_match_device_ids") =>
               /\ Called("acpi_bus_get_device")
               /\ Pos("ACPI_HANDLE") < Pos("acpi_bus_get_device")
               /\ Pos("acpi_bus_get_device") < Pos("acpi_match_device_ids")
        /\ Called("acpi_evaluate_dsm_typed") =>
               /\ Called("acpi_match_device_ids")
               /\ Pos("acpi_match_device_ids") < Pos("acpi_evaluate_dsm_typed")

C7_Witness ==
    /\ last = "probe"
    /\ devids = {"CHPN0001", "PNP0C50"}
    /\ Called("acpi_match_device_ids")
    /\ Discovery.res = -ENODEV
    /\ ~Called("acpi_evaluate_dsm_typed")

\* C8: the shutdown callback calls i2c_hid_core_shutdown first and then
\* requests D3cold of the ACPI companion exactly once, whatever power_fixed
\* is and whether or not a companion exists.
C8_ShutdownOrder ==
    last = "shutdown" =>
        /\ CountFn(calls, "i2c_hid_core_shutdown") = 1
        /\ Pos("i2c_hid_core_shutdown") = 1
        /\ TheCall("i2c_hid_core_shutdown").args = <<client>>
        /\ CountFn(calls, "acpi_device_set_power") = 1
        /\ Pos("i2c_hid_core_shutdown") < Pos("acpi_device_set_power")
        /\ TheCall("acpi_device_set_power").args[2] = ACPI_STATE_D3_COLD
        /\ TheCall("acpi_device_set_power").args[1] = TheCall("ACPI_COMPANION").res

C8_Witness ==
    /\ last = "shutdown" /\ shut
    /\ TheCall("acpi_device_set_power").args[1] = 0
    /\ Len(devres) = 1 /\ ~devres[1].power_fixed

\* C9: for every integer v the _DSM returns, discovery yields v mod 2^16, a
\* value in 0..65535 that probe does not take for an error, and that value
\* is the address handed to i2c_hid_core_probe.
C9_AddressTruncated ==
    (/\ last = "probe"
     /\ Called("acpi_evaluate_dsm_typed")
     /\ TheCall("acpi_evaluate_dsm_typed").res # NoObj) =>
        LET v == TheCall("acpi_evaluate_dsm_typed").res
        IN  /\ Discovery.res = v % 65536
            /\ Discovery.res \in 0..65535
            /\ Called("i2c_hid_core_probe")
            /\ CoreProbe.args[3] = v % 65536
            /\ ret = CoreProbe.res

C9_Witness ==
    /\ last = "probe"
    /\ Called("acpi_evaluate_dsm_typed")
    /\ TheCall("acpi_evaluate_dsm_typed").res = 65536
    /\ Called("i2c_hid_core_probe")
    /\ CoreProbe.args[3] = 0

\* C10: a probe attempt that fails before the hand-off changes no wake-up
\* flag, makes no ACPI power call and leaves no record with power_fixed
\* set; the adapter's only ACPI power calls are the fix-up inside the
\* power-up callback and the D3cold request of the shutdown callback.
C10_FailedProbeState ==
    /\ (last = "probe" /\ ~Called("i2c_hid_core_probe")) =>
           /\ ret < 0
           /\ \A f \in PowerActions \cup {"i2c_hid_acpi_power_up_device"} : ~Called(f)
           /\ \A i \in DOMAIN devres : ~devres[i].power_fixed
    /\ \A i \in DOMAIN calls :
           /\ calls[i].fn = "acpi_device_fix_up_power" =>
                  /\ i > 2
                  /\ calls[i - 1].fn = "ACPI_COMPANION"
                  /\ calls[i - 2].fn = "i2c_hid_acpi_power_up_device"
           /\ calls[i].fn = "acpi_device_set_power" =>
                  /\ last = "shutdown"
                  /\ calls[i].args[2] = ACPI_STATE_D3_COLD

C10_FailedProbeKeepsWakeup ==
    (/\ attempts' = attempts + 1
     /\ FirstAt(calls', "i2c_hid_core_probe", 1) = 0) => wakeup' = wakeup

C10_FailedProbeFrame ==
    [] C10_FailedProbeState /\ [][C10_FailedProbeKeepsWakeup]_vars

C10_Witness ==
    /\ last = "probe" /\ fadt_low_power_s0
    /\ Blacklisted /\ ret = -ENODEV
    /\ wakeup = [capable |-> FALSE, enabled |-> FALSE]
    /\ devres = <<>>

====
